---- MODULE Spec2Model ----
(***************************************************************************)
(* Model of monitor-bot: the scan scheduler (MonitorBot.initialize / run / *)
(* shutdown), the scan pipeline (MonitoringEngine.scan_markets), the       *)
(* snapshot store (MarketDataService) and the change calculators.          *)
(*                                                                         *)
(* Percentages are exact rationals [num, den]; the code computes them in   *)
(* binary floating point, whose rounding is not modelled.  Snapshot        *)
(* timestamps are not modelled.                                            *)
(***************************************************************************)
EXTENDS Integers, Sequences, FiniteSets, TLC

VARIABLES
    symbols,            \* MarketDataService.symbols (settings.SYMBOLS)
    market,             \* environment: the readings the exchanges can report
    fail_cap,           \* environment: most consecutive failed cycles it causes
    early_signal,       \* environment: a signal may arrive during initialize()
    snapshots,          \* MarketDataService.snapshots: key -> MarketSnapshot
    exchange,           \* BaseExchange.exchange of binance / bybit
    running,            \* MonitorBot.running
    pc,                 \* position of the main coroutine
    attempt,            \* loop variable of the retry loops in initialize()
    wait_time,          \* local of the retry loops: the last backoff wait
    consecutive_errors, \* local of MonitorBot.run
    sleep_i,            \* loop variable of the interval sleep in run()
    results,            \* local of fetch_all_snapshots: what gather() returned
    current_snapshots,  \* local of get_changes
    changes,            \* local of scan_markets
    alerts,             \* alerts of the scan that still await dispatch
    alert_count,        \* MonitoringEngine.alert_count
    exit_code,          \* process exit status
    snapshots_before,   \* history: the store when the scan's fetch returned
    writes,             \* history: keys stored by the scan, in order
    completed,          \* history: fetches settled when the batch timed out
    cycle,              \* history: what happened in the current scan cycle
    pending_fetches,    \* fetch tasks created by a batch and not yet settled
    streak,             \* history: failed cycles since the last successful scan
    signalled,          \* history: handle_signal() has run
    dispatched,         \* history: the send attempts of send_alerts() so far
    unsurfaced,         \* history: the cycle's failures without a warning
    successes,          \* history: send_alert() calls that returned True
    initial_passes,     \* history: get_initial_snapshots() calls that returned
    track_stale,        \* whether the history variable stale is kept
    stale,              \* history: stored keys the last fetch pass did not return
    latest,             \* history: per key, the last snapshot a fetch returned
    probe               \* a call of MarketBias.calculate: arguments and result

\* The state of the bot and its services
bot == <<track_stale, stale, latest, dispatched, initial_passes, successes, unsurfaced, symbols, market, fail_cap, snapshots, exchange, running, pc, attempt,
         consecutive_errors, sleep_i, results, current_snapshots, changes,
         alerts,
         alert_count, exit_code, snapshots_before, writes, cycle,
         streak, early_signal, signalled, pending_fetches, completed,
         wait_time>>

vars == <<bot, probe>>

-----------------------------------------------------------------------------
(* Bounds of the model *)

ScanInterval == 2       \* settings.SCAN_INTERVAL, scaled down (seconds)
MaxErrors == 6          \* cap on consecutive_errors, failure-prone environment
MaxErrorsRich == 1      \* cap on consecutive_errors, rich-market environment
MaxAlertCount == 1      \* cap on alert_count
MaxPct == 4             \* largest percentage given to MarketBias.calculate
MaxValue == 8           \* largest value given to calculate_percentage_change

(* Program constants *)

max_retries == 5
max_consecutive_errors == 5
PRICE_THRESHOLD == 3
OI_THRESHOLD == 5

\* None of an Optional[str]
None == "None"

\* None of an optional object (snapshot, change, fetch result)
NoneObj == [none |-> TRUE]

\* Python truthiness of an Optional[str]
Truthy(x) == x # None /\ x # ""

Abs(n) == IF n < 0 THEN 0 - n ELSE n

Min(a, b) == IF a < b THEN a ELSE b

-----------------------------------------------------------------------------
(* Configuration and market readings *)

\* A symbol "BASE/QUOTE" is kept parsed as <<BASE, QUOTE>>.
SymbolStr(symbol) == symbol[1] \o "/" \o symbol[2]

\* What one exchange fetch can read: price, open interest (USD), 24h volume.
Reading(price, open_interest, volume_24h) ==
    [price |-> price, open_interest |-> open_interest,
     volume_24h |-> volume_24h]

Readings ==
    { Reading(1000, 1000, 500), Reading(1035, 1040, 500),
      Reading(990, 1100, 600) }

\* The environments explored: a rich market (all three readings) over the two
\* keys of a non-USDT symbol and a market of two readings over the three keys
\* of a USDT symbol, in both of which few cycles fail in a row, and a flat
\* market in which cycles fail up to MaxErrors times in a row.
Environments ==
    { [symbols |-> << <<"ETH", "USD">> >>, market |-> Readings,
       fail_cap |-> MaxErrorsRich, early_signal |-> FALSE],
      [symbols |-> << <<"BTC", "USDT">> >>,
       market |-> { Reading(1000, 1000, 500), Reading(1035, 1040, 500) },
       fail_cap |-> MaxErrorsRich, early_signal |-> FALSE],
      [symbols |-> << <<"ETH", "USD">> >>,
       market |-> { Reading(1000, 1000, 500) },
       fail_cap |-> MaxErrors, early_signal |-> FALSE] }

\* The environments in which the keys of a batch are explored: a symbol list
\* with a repeated entry over a market of two readings, a list of a USDT
\* symbol and its USD counterpart (five keys, two of them bybit BTC/USD), and
\* a single USDT symbol in a market in which cycles fail up to MaxErrors times
\* in a row.
KeyEnvironments ==
    { [symbols |-> << <<"ETH", "USD">>, <<"ETH", "USD">> >>,
       market |-> { Reading(1000, 1000, 500), Reading(1035, 1040, 500) },
       fail_cap |-> 0, early_signal |-> FALSE],
      [symbols |-> << <<"BTC", "USDT">>, <<"BTC", "USD">> >>,
       market |-> { Reading(1000, 1000, 500) },
       fail_cap |-> 0, early_signal |-> FALSE],
      [symbols |-> << <<"BTC", "USDT">> >>,
       market |-> { Reading(1000, 1000, 500) },
       fail_cap |-> MaxErrors, early_signal |-> FALSE] }

\* The environments in which the scheduler's progress is explored: a market
\* of two readings in which few cycles fail in a row, the flat market in
\* which cycles fail up to MaxErrors times in a row, and a flat market without
\* failed cycles in which a signal may arrive while initialize() runs.
FairEnvironments ==
    { [symbols |-> << <<"ETH", "USD">> >>,
       market |-> { Reading(1000, 1000, 500), Reading(1035, 1040, 500) },
       fail_cap |-> MaxErrorsRich, early_signal |-> FALSE],
      [symbols |-> << <<"ETH", "USD">> >>,
       market |-> { Reading(1000, 1000, 500) },
       fail_cap |-> MaxErrors, early_signal |-> FALSE],
      [symbols |-> << <<"ETH", "USD">> >>,
       market |-> { Reading(1000, 1000, 500) },
       fail_cap |-> 0, early_signal |-> TRUE] }

MarketSnapshot(symbol, exch, reading, market_type) ==
    [symbol |-> symbol, exchange |-> exch, price |-> reading.price,
     open_interest |-> reading.open_interest,
     volume_24h |-> reading.volume_24h, market_type |-> market_type]

-----------------------------------------------------------------------------
(* models/market_data.py and utils/calculators.py *)

calculate_percentage_change_unguarded(old_value, new_value) ==
    [num |-> (new_value - old_value) * 100, den |-> old_value]

calculate_percentage_change(old_value, new_value) ==
    IF old_value = 0
    THEN [num |-> 0, den |-> 1]
    ELSE [num |-> (new_value - old_value) * 100, den |-> old_value]

\* abs(pct) >= threshold
PctAbsGeq(pct, threshold) == Abs(pct.num) >= threshold * Abs(pct.den)

PctPositive_zero_up(pct) == pct.num * pct.den >= 0

\* pct > 0
PctPositive(pct) == pct.num * pct.den > 0

compare_snapshots(previous, current) ==
    IF previous.symbol # current.symbol \/ previous.exchange # current.exchange
    THEN NoneObj
    ELSE [symbol |-> current.symbol,
          exchange |-> current.exchange,
          price_change_pct |->
              calculate_percentage_change(previous.price, current.price),
          oi_change_pct |->
              calculate_percentage_change(previous.open_interest,
                                          current.open_interest),
          volume_change_pct |->
              calculate_percentage_change(previous.volume_24h,
                                          current.volume_24h),
          current_price |-> current.price,
          previous_price |-> previous.price,
          current_oi |-> current.open_interest,
          previous_oi |-> previous.open_interest,
          volume_24h |-> current.volume_24h,
          previous_volume |-> previous.volume_24h]

meets_threshold_and(change, price_threshold, oi_threshold) ==
    /\ PctAbsGeq(change.price_change_pct, price_threshold)
    /\ PctAbsGeq(change.oi_change_pct, oi_threshold)

meets_threshold(change, price_threshold, oi_threshold) ==
    \/ PctAbsGeq(change.price_change_pct, price_threshold)
    \/ PctAbsGeq(change.oi_change_pct, oi_threshold)

is_significant_move_either(price_change_pct, oi_change_pct, price_threshold, oi_threshold) ==
    \/ PctAbsGeq(price_change_pct, price_threshold)
    \/ PctAbsGeq(oi_change_pct, oi_threshold)

is_significant_move(price_change_pct, oi_change_pct, price_threshold, oi_threshold) ==
    /\ PctAbsGeq(price_change_pct, price_threshold)
    /\ PctAbsGeq(oi_change_pct, oi_threshold)

MarketBias_calculate(price_change_pct, oi_change_pct) ==
    LET price_up == PctPositive(price_change_pct)
        oi_up == PctPositive(oi_change_pct)
    IN  IF price_up /\ oi_up THEN "long_inflow"
        ELSE IF ~price_up /\ oi_up THEN "short_inflow"
        ELSE IF price_up /\ ~oi_up THEN "short_squeeze"
        ELSE "long_liquidation"

-----------------------------------------------------------------------------
(* services/market_data_service.py *)

_get_snapshot_key_without_market_type(exch, symbol, market_type) ==
    exch \o ":" \o SymbolStr(symbol)

_get_snapshot_key(exch, symbol, market_type) ==
    IF Truthy(market_type)
    THEN exch \o ":" \o SymbolStr(symbol) \o ":" \o market_type
    ELSE exch \o ":" \o SymbolStr(symbol)

SnapshotKey(s) == _get_snapshot_key(s.exchange, s.symbol, s.market_type)

\* _store_snapshot that keeps the snapshot a key already has
_store_snapshot_keeps_first(store, snapshot) ==
    store @@ (SnapshotKey(snapshot) :> snapshot)

_store_snapshot_replaces_store(store, snapshot) ==
    (SnapshotKey(snapshot) :> snapshot)

_store_snapshot(store, snapshot) ==
    (SnapshotKey(snapshot) :> snapshot) @@ store

_get_previous_snapshot(store, exch, symbol, market_type) ==
    LET key == _get_snapshot_key(exch, symbol, market_type)
    IN  IF key \in DOMAIN store THEN store[key] ELSE NoneObj

\* The fetch tasks of one batch, in the order fetch_all_snapshots builds them.
RECURSIVE BinanceTasks(_)
BinanceTasks(syms) ==
    IF syms = << >> THEN << >>
    ELSE << [exchange |-> "binance", symbol |-> Head(syms),
             market_type |-> "futures"] >> \o BinanceTasks(Tail(syms))

RECURSIVE BybitTasks(_)
BybitTasks(syms) ==
    IF syms = << >> THEN << >>
    ELSE LET symbol == Head(syms)
             linear == << [exchange |-> "bybit", symbol |-> symbol,
                           market_type |-> "linear"] >>
             inverse == IF symbol[2] = "USDT"
                        THEN << [exchange |-> "bybit",
                                 symbol |-> <<symbol[1], "USD">>,
                                 market_type |-> "inverse"] >>
                        ELSE << >>
         IN  linear \o inverse \o BybitTasks(Tail(syms))

FetchTasks(syms) == BinanceTasks(syms) \o BybitTasks(syms)

\* The keys of the configured (exchange, symbol, variant) universe.
ConfiguredKeys(syms) ==
    { _get_snapshot_key(FetchTasks(syms)[i].exchange, FetchTasks(syms)[i].symbol,
                        FetchTasks(syms)[i].market_type) :
      i \in 1..Len(FetchTasks(syms)) }

\* The results of gather(): per task a reading, or None for a failed fetch.
BatchOutcomes(syms, readings) ==
    [1..Len(FetchTasks(syms)) -> readings \cup {NoneObj}]

\* What gather() returns: per task its snapshot, or None when the fetch failed.
GatherResults(syms, outcome) ==
    [i \in 1..Len(FetchTasks(syms)) |->
        IF outcome[i] = NoneObj THEN NoneObj
        ELSE MarketSnapshot(FetchTasks(syms)[i].symbol,
                            FetchTasks(syms)[i].exchange, outcome[i],
                            FetchTasks(syms)[i].market_type)]

\* fetch_all_snapshots, lines 133-140: the results that are snapshots, in order.
RECURSIVE FilterResults(_, _)
FilterResults(res, i) ==
    IF i > Len(res) THEN << >>
    ELSE (IF res[i] = NoneObj THEN << >> ELSE << res[i] >>)
         \o FilterResults(res, i + 1)

fetch_all_snapshots_all_or_nothing(res) ==
    IF \E i \in 1..Len(res) : res[i] = NoneObj THEN << >>
    ELSE FilterResults(res, 1)

fetch_all_snapshots(res) == FilterResults(res, 1)

fetch_all_snapshots_timeout_partial(done) == FilterResults(done, 1)

\* fetch_all_snapshots, lines 142-144: the batch timeout elapsed with the
\* tasks in done settled and the others (None) not: the result is []
fetch_all_snapshots_timeout(done) == << >>

\* get_changes_loop with the store written before the lookup
RECURSIVE get_changes_loop_store_first(_, _, _, _, _)
get_changes_loop_store_first(current, i, store, chg, wr) ==
    IF i > Len(current)
    THEN [snapshots |-> store, changes |-> chg, writes |-> wr]
    ELSE LET cur == current[i]
             stored == _store_snapshot(store, cur)
             previous == _get_previous_snapshot(stored, cur.exchange,
                                                cur.symbol, cur.market_type)
             change == compare_snapshots(previous, cur)
         IN  get_changes_loop_store_first(current, i + 1, stored,
                              IF change # NoneObj THEN Append(chg, change) ELSE chg,
                              Append(wr, SnapshotKey(cur)))

\* get_changes_loop with the store written only for keys that have a
\* previous snapshot
RECURSIVE get_changes_loop_store_if_previous(_, _, _, _, _)
get_changes_loop_store_if_previous(current, i, store, chg, wr) ==
    IF i > Len(current)
    THEN [snapshots |-> store, changes |-> chg, writes |-> wr]
    ELSE LET cur == current[i]
             previous == _get_previous_snapshot(store, cur.exchange,
                                                cur.symbol, cur.market_type)
             change == IF previous # NoneObj
                       THEN compare_snapshots(previous, cur)
                       ELSE NoneObj
         IN  get_changes_loop_store_if_previous(current, i + 1,
                              IF previous # NoneObj
                              THEN _store_snapshot(store, cur) ELSE store,
                              IF change # NoneObj THEN Append(chg, change) ELSE chg,
                              IF previous # NoneObj
                              THEN Append(wr, SnapshotKey(cur)) ELSE wr)

\* fetch_all_snapshots, lines 113-131: the batch creates one task per fetch
StartBatch(pending, syms) == pending + Len(FetchTasks(syms))

\* gather() returns when every task of the batch has settled
AfterGather(pending) == 0

AfterCancel_abandoned(pending) == pending

\* asyncio.wait_for at its timeout cancels the call it awaits and waits for
\* the cancellation to finish; cancelling gather() cancels its children
AfterCancel(pending) == 0

\* get_changes_loop given up after its first snapshot
get_changes_loop_interrupted(current, i, store, chg, wr) ==
    IF i > Len(current)
    THEN [snapshots |-> store, changes |-> chg, writes |-> wr]
    ELSE [snapshots |-> _store_snapshot(store, current[i]), changes |-> chg,
          writes |-> Append(wr, SnapshotKey(current[i]))]

\* The loop of get_changes over current_snapshots[i..]: per snapshot, look up
\* the previous one, compare, then store.
RECURSIVE get_changes_loop(_, _, _, _, _)
get_changes_loop(current, i, store, chg, wr) ==
    IF i > Len(current)
    THEN [snapshots |-> store, changes |-> chg, writes |-> wr]
    ELSE LET cur == current[i]
             previous == _get_previous_snapshot(store, cur.exchange,
                                                cur.symbol, cur.market_type)
             change == IF previous # NoneObj
                       THEN compare_snapshots(previous, cur)
                       ELSE NoneObj
         IN  get_changes_loop(current, i + 1,
                              _store_snapshot(store, cur),
                              IF change # NoneObj THEN Append(chg, change) ELSE chg,
                              Append(wr, SnapshotKey(cur)))

get_changes(store, current) == get_changes_loop(current, 1, store, << >>, << >>)

\* The keys of the store that the fetch pass which wrote the keys wr did not
\* return: their snapshots are older than the pass
StaleAfter(store, wr) == DOMAIN store \ { wr[i] : i \in DOMAIN wr }

\* Per key, the last snapshot that fetch_all_snapshots has returned so far,
\* after it returned the list current
LatestFetched(prev, current) ==
    LET keys == { SnapshotKey(current[i]) : i \in DOMAIN current }
        last(k) == CHOOSE i \in DOMAIN current :
                      /\ SnapshotKey(current[i]) = k
                      /\ \A j \in DOMAIN current :
                            j > i => SnapshotKey(current[j]) # k
    IN  [k \in DOMAIN prev \cup keys |->
            IF k \in keys THEN current[last(k)] ELSE prev[k]]

\* The loop of get_initial_snapshots: store every snapshot, compare nothing.
RECURSIVE get_initial_snapshots_loop(_, _, _, _)
get_initial_snapshots_loop(current, i, store, wr) ==
    IF i > Len(current)
    THEN [snapshots |-> store, writes |-> wr]
    ELSE get_initial_snapshots_loop(current, i + 1,
                                    _store_snapshot(store, current[i]),
                                    Append(wr, SnapshotKey(current[i])))

get_initial_snapshots(store, current) ==
    get_initial_snapshots_loop(current, 1, store, << >>)

-----------------------------------------------------------------------------
(* core/monitoring_engine.py *)

Alert(change) ==
    [symbol |-> change.symbol,
     exchange |-> change.exchange,
     market_bias |-> MarketBias_calculate(change.price_change_pct,
                                          change.oi_change_pct),
     price_change |-> change,
     market_type |-> None]

RECURSIVE analyze_changes(_)
analyze_changes(chg) ==
    IF chg = << >> THEN << >>
    ELSE (IF meets_threshold(Head(chg), PRICE_THRESHOLD, OI_THRESHOLD)
          THEN << Alert(Head(chg)) >>
          ELSE << >>)
         \o analyze_changes(Tail(chg))


get_snapshot_count(store) == Cardinality(DOMAIN store)

get_statistics(count, store) ==
    [total_alerts |-> count, tracked_snapshots |-> get_snapshot_count(store)]

-----------------------------------------------------------------------------
(* api/base_exchange.py and MarketDataService.initialize / close *)

\* Sessions after MarketDataService.initialize(), which opens binance then
\* bybit; outcome names the exchange whose load_markets() raised or was
\* cancelled by the caller's timeout.
service_initialize(ex, outcome) ==
    IF outcome = "binance"
    THEN [ex EXCEPT !.binance = "open"]
    ELSE [binance |-> "open", bybit |-> "open"]

\* Sessions after MarketDataService.close(), which closes binance then bybit;
\* outcome names the exchange whose close() raised.
service_close(ex, outcome) ==
    LET closed(st) == IF st = "none" THEN "none" ELSE "closed"
    IN  IF outcome = "binance" THEN ex
        ELSE IF outcome = "bybit" THEN [ex EXCEPT !.binance = closed(@)]
        ELSE [binance |-> closed(ex.binance), bybit |-> closed(ex.bybit)]

CallOutcomes == {"ok", "binance", "bybit"}

-----------------------------------------------------------------------------
(* main.py: MonitorBot *)

NotExited == 0 - 1

config == <<symbols, market, fail_cap, early_signal, track_stale, probe>>

locals == <<results, current_snapshots, changes, snapshots_before, writes,
            completed>>

fetched == <<stale, latest>>

NewCycle(errors) ==
    [errors_before |-> errors, timed_out |-> FALSE, raised |-> FALSE,
     errored |-> FALSE, batch_timed_out |-> FALSE, warned |-> FALSE,
     breach |-> FALSE,
     reconnects |-> 0, reconnected |-> FALSE, cancelled |-> 0]

\* The cycle ended in a timeout or a raised error.
Failed(c) == c.timed_out \/ c.raised \/ c.errored

NoLocals ==
    /\ results' = << >>
    /\ current_snapshots' = << >>
    /\ changes' = << >>
    /\ snapshots_before' = << >>
    /\ writes' = << >>
    /\ completed' = << >>

\* streak after a cycle that ended in one of the handlers of run()
StreakAfterFailure == Min(streak + 1, max_consecutive_errors)

\* run(), lines 183 and 203
ErrorsAfterFailure(errors) == errors + 1

ErrorsAfterSuccess_keep(errors) == errors

\* run(), line 177
ErrorsAfterSuccess(errors) == 0

BudgetReached_exceeded(errors) == errors > max_consecutive_errors

\* run(), lines 191 and 211
BudgetReached(errors) == errors >= max_consecutive_errors

AfterHandledFailure_stop(errors) ==
    IF BudgetReached(errors) THEN "reinit_close" ELSE "shutdown"

\* run(), lines 191-200 and 222: after the warning, reconnect when the budget
\* is reached, else go on to the interval wait
AfterHandledFailure(errors) ==
    IF BudgetReached(errors) THEN "reinit_close" ELSE "wait"

\* run(), lines 197 and 217
ErrorsAfterReinit(errors) == 0

AfterReinitError_propagates == "shutdown"

\* run(), lines 199-200 and 219-220: the handler logs and falls through to
\* the interval wait
AfterReinitError == "wait"

\* scan_markets(), lines 130-132: the handler returns normally to run()
AfterScanError == "scan_returned"

\* fetch_all_snapshots(), lines 133-137: a fetch that failed is among the
\* results of gather()
FetchFailed(res) == \E i \in 1..Len(res) : res[i] = NoneObj

AfterErrorMessage_not_sent(unsurf, kinds) == unsurf

\* scan_markets(), line 132, and run(), lines 185-188 and 205-208: the
\* handler awaits send_error_message() for the failure it caught
AfterErrorMessage(unsurf, kinds) == unsurf \ kinds

AfterExchangesReady_skips_cold_start == "introduction"

\* initialize(), lines 82 and 102-110: with the exchanges initialized the
\* initial snapshots are collected
AfterExchangesReady == "initial_snapshots"

BackoffWait_constant(n) == 10

\* initialize(), lines 86, 95, 114 and 123: wait_time = attempt * 10
BackoffWait(n) == n * 10

\* The state after MonitorBot.__init__() in one of the environments envs
InitIn(envs) ==
    /\ \E e \in envs :
          /\ symbols = e.symbols
          /\ market = e.market
          /\ fail_cap = e.fail_cap
          /\ early_signal = e.early_signal
    /\ snapshots = << >>
    /\ exchange = [binance |-> "none", bybit |-> "none"]
    /\ running = FALSE
    /\ pc = "validate_config"
    /\ attempt = 0
    /\ wait_time = 0
    /\ consecutive_errors = 0
    /\ sleep_i = 0
    /\ results = << >>
    /\ current_snapshots = << >>
    /\ changes = << >>
    /\ alerts = << >>
    /\ alert_count = 0
    /\ exit_code = NotExited
    /\ snapshots_before = << >>
    /\ writes = << >>
    /\ completed = << >>
    /\ cycle = NewCycle(0)
    /\ streak = 0
    /\ signalled = FALSE
    /\ pending_fetches = 0
    /\ dispatched = << >>
    /\ unsurfaced = {}
    /\ successes = 0
    /\ initial_passes = 0
    /\ stale = {}
    /\ latest = << >>

\* No call of MarketBias.calculate is singled out
NoProbe == [applied |-> FALSE, price_change_pct |-> [num |-> 0, den |-> 1],
            oi_change_pct |-> [num |-> 0, den |-> 1], bias_type |-> None]

Init == InitIn(Environments) /\ track_stale = FALSE /\ probe = NoProbe

FairInit == InitIn(FairEnvironments) /\ track_stale = FALSE /\ probe = NoProbe

KeyInit == InitIn(KeyEnvironments) /\ track_stale = FALSE /\ probe = NoProbe

\* The fair environments, with the age of the stored snapshots recorded
StaleInit == InitIn(FairEnvironments) /\ track_stale = TRUE /\ probe = NoProbe

\* The percentages given to MarketBias.calculate
Percentages == { [num |-> n, den |-> 1] : n \in (0 - MaxPct)..MaxPct }

\* A call of MarketBias.calculate on any pair of percentages is about to be
\* made
BiasInit ==
    /\ InitIn(FairEnvironments)
    /\ track_stale = FALSE
    /\ ~early_signal
    /\ fail_cap = MaxErrors
    /\ \E p \in Percentages, o \in Percentages :
          probe = [NoProbe EXCEPT !.price_change_pct = p,
                                  !.oi_change_pct = o]

\* MarketBias.calculate(price_change_pct, oi_change_pct, indicators) returns
Classify ==
    /\ ~probe.applied
    /\ probe' = [probe EXCEPT
                    !.applied = TRUE,
                    !.bias_type = MarketBias_calculate(probe.price_change_pct,
                                                       probe.oi_change_pct)]
    /\ UNCHANGED bot

\* The state in which one call of a function of utils/calculators.py, drawn
\* from calls, is about to be made
ProbeInit(calls) ==
    /\ InitIn(FairEnvironments)
    /\ track_stale = FALSE
    /\ ~early_signal
    /\ fail_cap = MaxErrors
    /\ probe \in calls

\* The pairs of the docstring and of TestCalculatePercentageChange
PercentageExamples ==
    { <<100, 103>>, <<100, 95>>, <<100, 200>>, <<100, 100>>, <<0, 100>> }

\* The values given to calculate_percentage_change
Values == (0 - MaxValue)..MaxValue

PercentageInit ==
    ProbeInit({ [applied |-> FALSE, old_value |-> a[1], new_value |-> a[2],
                 result |-> None] :
                a \in (Values \X Values) \cup PercentageExamples })

\* calculate_percentage_change(old_value, new_value) returns
PercentageChange ==
    /\ ~probe.applied
    /\ probe' = [probe EXCEPT
                    !.applied = TRUE,
                    !.result = calculate_percentage_change(probe.old_value,
                                                           probe.new_value)]
    /\ UNCHANGED bot

\* The snapshots given to compare_snapshots: two symbols on two exchanges in
\* every variant, with one of two readings or with one of the readings that
\* BybitExchange.fetch_market_snapshot builds from a ticker without a price
\* or from an open interest without an amount
ProbeSnapshots ==
    { MarketSnapshot(symbol, exch, reading, market_type) :
        symbol \in { <<"BTC", "USDT">>, <<"BTC", "USD">> },
        exch \in {"binance", "bybit"},
        reading \in { Reading(1000, 1000, 500), Reading(1035, 1040, 500),
                      Reading(0, 0, 500), Reading(1000, 0, 500) },
        market_type \in {None, "linear", "inverse"} }

CompareInit ==
    ProbeInit({ [applied |-> FALSE, previous |-> a, current |-> b,
                 result |-> None] :
                a \in ProbeSnapshots, b \in ProbeSnapshots })

\* compare_snapshots(previous, current) returns
CompareSnapshots ==
    /\ ~probe.applied
    /\ probe' = [probe EXCEPT
                    !.applied = TRUE,
                    !.result = compare_snapshots(probe.previous,
                                                 probe.current)]
    /\ UNCHANGED bot

\* The thresholds given to is_significant_move
Thresholds == 1..MaxPct

\* A PriceOIChange with the percentages p and o
ChangeWith(p, o) ==
    [symbol |-> <<"BTC", "USDT">>, exchange |-> "binance",
     price_change_pct |-> p, oi_change_pct |-> o]

SignificantInit ==
    ProbeInit({ [applied |-> FALSE, price_change_pct |-> p,
                 oi_change_pct |-> o, price_threshold |-> pt,
                 oi_threshold |-> ot, result |-> None, alerts |-> << >>] :
                p \in Percentages, o \in Percentages,
                pt \in Thresholds, ot \in Thresholds })

\* is_significant_move(price_change_pct, oi_change_pct, price_threshold,
\* oi_threshold) returns, and analyze_changes() is given a change with the
\* same percentages
SignificantMove ==
    /\ ~probe.applied
    /\ probe' = [probe EXCEPT
                    !.applied = TRUE,
                    !.result = is_significant_move(probe.price_change_pct,
                                                   probe.oi_change_pct,
                                                   probe.price_threshold,
                                                   probe.oi_threshold),
                    !.alerts = analyze_changes(
                                   << ChangeWith(probe.price_change_pct,
                                                 probe.oi_change_pct) >>)]
    /\ UNCHANGED bot

\* The bybit fetches of one batch are about to start: one coroutine per task
\* of BybitTasks, all on the one ccxt object of BybitExchange, whose
\* options['defaultType'] nobody has set yet.  asyncio.wait_for either runs
\* the ccxt call inside the calling task (inline, Python 3.12 and later) or
\* wraps it in a task of its own that starts at a later turn of the loop.
BybitInit ==
    /\ InitIn(KeyEnvironments)
    /\ symbols[1] = <<"BTC", "USDT">>
    /\ track_stale = FALSE
    /\ \E inline \in BOOLEAN :
          probe = [inline |-> inline, defaultType |-> None,
                   tasks |-> [i \in DOMAIN BybitTasks(symbols) |->
                                 [symbol |-> BybitTasks(symbols)[i].symbol,
                                  market_type |->
                                      BybitTasks(symbols)[i].market_type,
                                  at |-> "start", ticker_type |-> None,
                                  oi_type |-> None, result |-> None]]]

\* The task i of the batch, changed to the record t
WithTask(i, t) == [probe EXCEPT !.tasks[i] = t]

\* fetch_market_snapshot, lines 36-42: the option is set and fetch_ticker is
\* called
SetDefaultType ==
    \E i \in DOMAIN probe.tasks :
       LET t == probe.tasks[i] IN
       /\ t.at = "start"
       /\ probe' = [WithTask(i, IF probe.inline
                                THEN [t EXCEPT !.at = "ticker_wait",
                                               !.ticker_type = t.market_type]
                                ELSE [t EXCEPT !.at = "ticker_call"])
                      EXCEPT !.defaultType = t.market_type]
       /\ UNCHANGED bot

\* base_exchange.fetch_ticker, lines 70-73: the ccxt call wrapped by wait_for
\* starts and issues the ticker request under the option as it is now
IssueTicker ==
    \E i \in DOMAIN probe.tasks :
       LET t == probe.tasks[i] IN
       /\ t.at = "ticker_call"
       /\ probe' = WithTask(i, [t EXCEPT !.at = "ticker_wait",
                                         !.ticker_type = probe.defaultType])
       /\ UNCHANGED bot

\* fetch_market_snapshot, lines 42-49: the ticker arrives (or None), and
\* fetch_open_interest is called
TickerReturns ==
    \E i \in DOMAIN probe.tasks, ok \in BOOLEAN :
       LET t == probe.tasks[i] IN
       /\ t.at = "ticker_wait"
       /\ probe' = WithTask(i,
                     IF ~ok THEN [t EXCEPT !.at = "done"]
                     ELSE IF probe.inline
                     THEN [t EXCEPT !.at = "oi_wait",
                                    !.oi_type = probe.defaultType]
                     ELSE [t EXCEPT !.at = "oi_call"])
       /\ UNCHANGED bot

\* base_exchange.fetch_open_interest, lines 93-97: the ccxt call wrapped by
\* wait_for starts and issues the request under the option as it is now
IssueOpenInterest ==
    \E i \in DOMAIN probe.tasks :
       LET t == probe.tasks[i] IN
       /\ t.at = "oi_call"
       /\ probe' = WithTask(i, [t EXCEPT !.at = "oi_wait",
                                         !.oi_type = probe.defaultType])
       /\ UNCHANGED bot

\* fetch_market_snapshot, lines 47-84: the open interest arrives (or None)
\* and the snapshot is built with the market_type the task was given
OpenInterestReturns ==
    \E i \in DOMAIN probe.tasks, ok \in BOOLEAN :
       LET t == probe.tasks[i] IN
       /\ t.at = "oi_wait"
       /\ probe' = WithTask(i, [t EXCEPT !.at = "done",
                                         !.result = IF ok THEN t.market_type
                                                    ELSE None])
       /\ UNCHANGED bot

BybitNext ==
    \/ SetDefaultType
    \/ IssueTicker
    \/ TickerReturns
    \/ IssueOpenInterest
    \/ OpenInterestReturns

\* The concurrent bybit fetches of one batch
BybitSpec == BybitInit /\ [][BybitNext]_vars

Exit1_status_zero ==
    /\ pc' = "exited"
    /\ exit_code' = 0

\* sys.exit(1)
Exit1 ==
    /\ pc' = "exited"
    /\ exit_code' = 1

\* initialize(), lines 43-48
ValidateConfig ==
    /\ pc = "validate_config"
    /\ \E ok \in BOOLEAN :
          IF ok THEN pc' = "test_connection" /\ exit_code' = exit_code
                ELSE Exit1
    /\ UNCHANGED <<config, fetched, initial_passes, successes, unsurfaced, dispatched, wait_time, signalled, pending_fetches, locals, snapshots, exchange, running, attempt,
                   consecutive_errors, sleep_i, alerts, alert_count,
                   cycle, streak>>

\* initialize(), lines 50-71
TestConnection ==
    /\ pc = "test_connection"
    /\ \E ok \in BOOLEAN :
          IF ok THEN pc' = "init_exchanges" /\ attempt' = 1
                     /\ exit_code' = exit_code
                ELSE Exit1 /\ attempt' = attempt
    /\ UNCHANGED <<config, fetched, initial_passes, successes, unsurfaced, dispatched, wait_time, signalled, pending_fetches, locals, snapshots, exchange, running,
                   consecutive_errors, sleep_i, alerts, alert_count,
                   cycle, streak>>

\* initialize(), lines 73-100: one attempt of the exchange retry loop
InitializeExchanges ==
    /\ pc = "init_exchanges"
    /\ \E outcome \in CallOutcomes :
          /\ exchange' = service_initialize(exchange, outcome)
          /\ IF outcome = "ok"
             THEN pc' = AfterExchangesReady /\ attempt' = 1
                  /\ exit_code' = exit_code
                  /\ wait_time' = 0
                  /\ pending_fetches' = StartBatch(pending_fetches, symbols)
             ELSE /\ pending_fetches' = pending_fetches
                  /\ IF attempt < max_retries
                     THEN pc' = pc /\ attempt' = attempt + 1
                          /\ wait_time' = BackoffWait(attempt)
                          /\ exit_code' = exit_code
                     ELSE Exit1 /\ attempt' = attempt
                          /\ wait_time' = wait_time
    /\ UNCHANGED <<config, fetched, initial_passes, successes, unsurfaced, dispatched, signalled, locals, snapshots, running, consecutive_errors,
                   sleep_i, alerts, alert_count, cycle, streak>>

\* initialize(), lines 102-110: get_initial_snapshots() returns
InitialSnapshots ==
    /\ pc = "initial_snapshots"
    /\ \E outcome \in BatchOutcomes(symbols, market) :
          LET res == GatherResults(symbols, outcome)
              current == fetch_all_snapshots(res)
              r == get_initial_snapshots(snapshots, current)
          IN  /\ results' = res
              /\ current_snapshots' = current
              /\ snapshots' = r.snapshots
              /\ writes' = r.writes
    /\ snapshots_before' = snapshots
    /\ completed' = << >>
    /\ pending_fetches' = AfterGather(pending_fetches)
    /\ wait_time' = 0
    /\ pc' = "introduction"
    /\ initial_passes' = initial_passes + 1
    /\ stale' = (IF track_stale THEN StaleAfter(snapshots', writes') ELSE stale)
    /\ latest' = LatestFetched(latest, current_snapshots')
    /\ UNCHANGED <<config, successes, unsurfaced, dispatched, signalled, exchange, running, attempt, consecutive_errors,
                   sleep_i, changes, alerts, alert_count, exit_code,
                   cycle, streak>>

\* initialize(), lines 102-110 with fetch_all_snapshots lines 142-147: the
\* batch timed out or raised inside fetch_all_snapshots, which returns []
InitialSnapshotsBatchTimeout ==
    /\ pc = "initial_snapshots"
    /\ results' = << >>
    /\ current_snapshots' = << >>
    /\ writes' = << >>
    /\ snapshots_before' = snapshots
    /\ completed' = << >>
    /\ cycle' = [cycle EXCEPT !.batch_timed_out = TRUE]
    /\ pending_fetches' = AfterCancel(pending_fetches)
    /\ wait_time' = 0
    /\ pc' = "introduction"
    /\ initial_passes' = initial_passes + 1
    /\ stale' = (IF track_stale THEN StaleAfter(snapshots, writes') ELSE stale)
    /\ latest' = LatestFetched(latest, current_snapshots')
    /\ UNCHANGED <<config, successes, unsurfaced, dispatched, signalled, snapshots, exchange, running, attempt,
                   consecutive_errors, sleep_i, changes, alerts, alert_count,
                   exit_code, streak>>

\* initialize(), lines 111-128: the attempt timed out or raised
InitialSnapshotsFail ==
    /\ pc = "initial_snapshots"
    /\ IF attempt < max_retries
       THEN /\ pc' = pc /\ attempt' = attempt + 1 /\ exit_code' = exit_code
            /\ wait_time' = BackoffWait(attempt)
            /\ pending_fetches' =
                  StartBatch(AfterCancel(pending_fetches), symbols)
       ELSE /\ Exit1 /\ attempt' = attempt
            /\ wait_time' = wait_time
            /\ pending_fetches' = AfterCancel(pending_fetches)
    /\ UNCHANGED <<config, fetched, initial_passes, successes, unsurfaced, dispatched, signalled, locals, snapshots, exchange, running,
                   consecutive_errors, sleep_i, alerts, alert_count,
                   cycle, streak>>

\* initialize(), lines 130-159
Introduction ==
    /\ pc = "introduction"
    /\ pc' = "run"
    /\ NoLocals
    /\ cycle' = [cycle EXCEPT !.batch_timed_out = FALSE]
    /\ UNCHANGED <<config, fetched, initial_passes, successes, unsurfaced, dispatched, wait_time, signalled, pending_fetches, snapshots, exchange, running, attempt,
                   consecutive_errors, sleep_i, alerts, alert_count,
                   exit_code, streak>>

\* run(), lines 163-165
RunStart ==
    /\ pc = "run"
    /\ running' = TRUE
    /\ consecutive_errors' = 0
    /\ pc' = "loop"
    /\ UNCHANGED <<config, fetched, initial_passes, successes, unsurfaced, dispatched, wait_time, signalled, pending_fetches, locals, snapshots, exchange, attempt, sleep_i,
                   alerts, alert_count, exit_code, cycle, streak>>

\* run(), line 168: while self.running
Loop ==
    /\ pc = "loop"
    /\ IF running
       THEN /\ pc' = "scan" /\ cycle' = NewCycle(consecutive_errors)
            /\ pending_fetches' = StartBatch(pending_fetches, symbols)
       ELSE /\ pc' = "shutdown" /\ cycle' = cycle
            /\ pending_fetches' = pending_fetches
    /\ UNCHANGED <<config, fetched, initial_passes, successes, unsurfaced, dispatched, wait_time, signalled, locals, snapshots, exchange, running, attempt,
                   consecutive_errors, sleep_i, alerts, alert_count,
                   exit_code, streak>>

\* get_changes(): the fetch batch settles and the compare-and-store loop runs
GetChanges ==
    /\ pc = "scan"
    /\ \E outcome \in BatchOutcomes(symbols, market) :
          LET res == GatherResults(symbols, outcome)
              current == fetch_all_snapshots(res)
              r == get_changes(snapshots, current)
          IN  /\ results' = res
              /\ current_snapshots' = current
              /\ snapshots' = r.snapshots
              /\ changes' = r.changes
              /\ writes' = r.writes
              /\ unsurfaced' = IF FetchFailed(res)
                               THEN unsurfaced \cup {"fetch"}
                               ELSE unsurfaced
    /\ snapshots_before' = snapshots
    /\ completed' = << >>
    /\ pending_fetches' = AfterGather(pending_fetches)
    /\ pc' = "analyze"
    /\ stale' = (IF track_stale THEN StaleAfter(snapshots', writes') ELSE stale)
    /\ latest' = LatestFetched(latest, current_snapshots')
    /\ UNCHANGED <<config, initial_passes, successes, dispatched, wait_time, signalled, exchange, running, attempt, consecutive_errors,
                   sleep_i, alerts, alert_count, exit_code, cycle,
                   streak>>

AfterBatchTimeout_raises == "scan_error"

\* fetch_all_snapshots, lines 142-144: the timeout is caught and printed, and
\* the call returns to get_changes like any other
AfterBatchTimeout == "analyze"

\* get_changes() when fetch_all_snapshots hits its batch timeout (or raises)
\* and returns []
GetChangesBatchTimeout ==
    /\ pc = "scan"
    /\ \E outcome \in BatchOutcomes(symbols, market) :
          /\ \E i \in DOMAIN outcome : outcome[i] = NoneObj
          /\ LET done == GatherResults(symbols, outcome)
                 current == fetch_all_snapshots_timeout(done)
                 r == get_changes(snapshots, current)
             IN  /\ completed' = done
                 /\ current_snapshots' = current
                 /\ snapshots' = r.snapshots
                 /\ changes' = r.changes
                 /\ writes' = r.writes
    /\ results' = << >>
    /\ snapshots_before' = snapshots
    /\ cycle' = [cycle EXCEPT !.batch_timed_out = TRUE]
    /\ pending_fetches' = AfterCancel(pending_fetches)
    /\ pc' = AfterBatchTimeout
    /\ unsurfaced' = unsurfaced \cup {"batch_timeout"}
    /\ stale' = (IF track_stale THEN StaleAfter(snapshots', writes') ELSE stale)
    /\ latest' = LatestFetched(latest, current_snapshots')
    /\ UNCHANGED <<config, initial_passes, successes, dispatched, wait_time, signalled, exchange, running, attempt,
                   consecutive_errors, sleep_i, alerts, alert_count,
                   exit_code, streak>>

\* scan_markets(), lines 115-128
Analyze ==
    /\ pc = "analyze"
    /\ IF changes = << >>
       THEN alerts' = << >> /\ pc' = "scan_returned"
       ELSE /\ alerts' = analyze_changes(changes)
            /\ pc' = IF alerts' # << >> THEN "send_alerts" ELSE "scan_returned"
    /\ NoLocals
    /\ cycle' = [cycle EXCEPT !.batch_timed_out = FALSE]
    /\ dispatched' = << >>
    /\ UNCHANGED <<config, fetched, initial_passes, successes, unsurfaced, wait_time, signalled, pending_fetches, snapshots, exchange, running, attempt,
                   consecutive_errors, sleep_i, alert_count, exit_code,
                   streak>>

AlertCountAfter_every_attempt(count, success) == count + 1

\* send_alerts(), lines 90-92: alert_count += 1 when send_alert() returned
\* True
AlertCountAfter(count, success) == IF success THEN count + 1 ELSE count

AfterSend_abort_on_failure(pending, success) ==
    IF success THEN Tail(pending) ELSE << >>

\* send_alerts(), lines 92-98: the for loop goes on to the next alert whatever
\* send_alert() returned
AfterSend(pending, success) == Tail(pending)

\* send_alerts(): one iteration of the loop
SendAlert ==
    /\ pc = "send_alerts"
    /\ alerts # << >>
    /\ \E success \in BOOLEAN :
          /\ success => alert_count < MaxAlertCount
          /\ alert_count' = AlertCountAfter(alert_count, success)
          /\ successes' = IF success THEN successes + 1 ELSE successes
          /\ alerts' = AfterSend(alerts, success)
          /\ dispatched' = Append(dispatched, [alert |-> Head(alerts),
                                               success |-> success])
          /\ unsurfaced' = IF success THEN unsurfaced
                           ELSE unsurfaced \cup {"dispatch"}
    /\ UNCHANGED <<config, fetched, initial_passes, wait_time, signalled, pending_fetches, locals, snapshots, exchange, running, pc, attempt,
                   consecutive_errors, sleep_i, exit_code, cycle,
                   streak>>

\* send_alerts() returns
SendAlertsDone ==
    /\ pc = "send_alerts"
    /\ alerts = << >>
    /\ pc' = "scan_returned"
    /\ dispatched' = << >>
    /\ UNCHANGED <<config, fetched, initial_passes, successes, unsurfaced, wait_time, signalled, pending_fetches, locals, snapshots, exchange, running, attempt,
                   consecutive_errors, sleep_i, alerts, alert_count,
                   exit_code, cycle, streak>>

\* scan_markets(), lines 130-131: an error raised in the try block after
\* get_changes() returned is caught
PipelineRaises ==
    /\ pc \in {"analyze", "send_alerts"}
    /\ pc' = "scan_error"
    /\ alerts' = << >>
    /\ NoLocals
    /\ cycle' = [cycle EXCEPT !.raised = TRUE, !.batch_timed_out = FALSE]
    /\ dispatched' = << >>
    /\ unsurfaced' = unsurfaced \cup {"scan_error"}
    /\ UNCHANGED <<config, fetched, initial_passes, successes, wait_time, signalled, pending_fetches, snapshots, exchange, running, attempt,
                   consecutive_errors, sleep_i, alert_count, exit_code,
                   streak>>

\* scan_markets(), line 132: send_error_message, then return
ScanErrorNotify ==
    /\ pc = "scan_error"
    /\ cycle' = [cycle EXCEPT !.warned = TRUE]
    /\ pc' = AfterScanError
    /\ unsurfaced' = AfterErrorMessage(unsurfaced, {"scan_error"})
    /\ UNCHANGED <<config, fetched, initial_passes, successes, dispatched, wait_time, signalled, pending_fetches, locals, snapshots, exchange, running, attempt,
                   consecutive_errors, sleep_i, alerts, alert_count,
                   exit_code, streak>>

\* run(), lines 171-184: wait_for cancels the scan at one of its awaits
ScanTimeout ==
    /\ pc \in {"scan", "send_alerts", "scan_error"}
    /\ consecutive_errors < fail_cap
    /\ consecutive_errors' = ErrorsAfterFailure(consecutive_errors)
    /\ cycle' = [cycle EXCEPT !.timed_out = TRUE,
                   !.breach = consecutive_errors' >= max_consecutive_errors,
                   !.cancelled = pending_fetches]
    /\ streak' = StreakAfterFailure
    /\ alerts' = << >>
    /\ NoLocals
    /\ pending_fetches' = AfterCancel(pending_fetches)
    /\ pc' = "handle_failure"
    /\ dispatched' = << >>
    /\ unsurfaced' = (IF pc = "scan_error"
                       THEN AfterErrorMessage(unsurfaced, {"scan_error"})
                       ELSE unsurfaced) \cup {"scan_timeout"}
    /\ stale' = (IF track_stale /\ pc = "scan"
                 THEN StaleAfter(snapshots, << >>) ELSE stale)
    /\ latest' = latest
    /\ UNCHANGED <<config, initial_passes, successes, wait_time, signalled, snapshots, exchange, running, attempt, sleep_i,
                   alert_count, exit_code>>

\* run(), line 177
ScanReturned ==
    /\ pc = "scan_returned"
    /\ consecutive_errors' = ErrorsAfterSuccess(consecutive_errors)
    /\ streak' = 0
    /\ pc' = "print_statistics"
    /\ UNCHANGED <<config, fetched, initial_passes, successes, unsurfaced, dispatched, wait_time, signalled, pending_fetches, locals, snapshots, exchange, running, attempt,
                   sleep_i, alerts, alert_count, exit_code, cycle>>

\* run(), line 180 and lines 222-224
PrintStatistics ==
    /\ pc = "print_statistics"
    /\ pc' = "wait"
    /\ sleep_i' = 0
    /\ UNCHANGED <<config, fetched, initial_passes, successes, unsurfaced, dispatched, wait_time, signalled, pending_fetches, locals, snapshots, exchange, running, attempt,
                   consecutive_errors, alerts, alert_count, exit_code,
                   cycle, streak>>

\* run(), lines 202-204: an error raised by line 180 reaches the generic
\* handler of run()
StatisticsRaises ==
    /\ pc = "print_statistics"
    /\ consecutive_errors < fail_cap
    /\ consecutive_errors' = ErrorsAfterFailure(consecutive_errors)
    /\ cycle' = [cycle EXCEPT !.errored = TRUE,
                   !.breach = consecutive_errors' >= max_consecutive_errors]
    /\ streak' = StreakAfterFailure
    /\ pc' = "handle_failure"
    /\ unsurfaced' = unsurfaced \cup {"cycle_error"}
    /\ UNCHANGED <<config, fetched, initial_passes, successes, dispatched, wait_time, signalled, pending_fetches, locals, snapshots, exchange, running, attempt,
                   sleep_i, alerts, alert_count, exit_code>>

\* run(), lines 185-192 and 205-212: send_error_message, then the budget test
HandleFailure ==
    /\ pc = "handle_failure"
    /\ pc' = AfterHandledFailure(consecutive_errors)
    /\ cycle' = [cycle EXCEPT !.warned = TRUE,
                   !.reconnects = IF pc' = "reinit_close" THEN @ + 1 ELSE @]
    /\ sleep_i' = 0
    /\ unsurfaced' = AfterErrorMessage(unsurfaced,
                                      {"scan_timeout", "cycle_error"})
    /\ UNCHANGED <<config, fetched, initial_passes, successes, dispatched, wait_time, signalled, pending_fetches, locals, snapshots, exchange, running, attempt,
                   consecutive_errors, alerts, alert_count, exit_code,
                   streak>>

\* run(), lines 193-195 and 199-200 (213-215, 219-220)
ReinitClose ==
    /\ pc = "reinit_close"
    /\ \E outcome \in CallOutcomes :
          /\ outcome # "ok" => exchange[outcome] # "none"
          /\ exchange' = service_close(exchange, outcome)
          /\ pc' = IF outcome = "ok" THEN "reinit_initialize"
                                     ELSE AfterReinitError
          /\ unsurfaced' = IF outcome = "ok" THEN unsurfaced
                           ELSE unsurfaced \cup {"recovery"}
    /\ UNCHANGED <<config, fetched, initial_passes, successes, dispatched, wait_time, signalled, pending_fetches, locals, snapshots, running, attempt,
                   consecutive_errors, sleep_i, alerts, alert_count,
                   exit_code, cycle, streak>>

\* run(), lines 196-200 (216-220)
ReinitInitialize ==
    /\ pc = "reinit_initialize"
    /\ \E outcome \in CallOutcomes :
          /\ exchange' = service_initialize(exchange, outcome)
          /\ IF outcome = "ok"
             THEN /\ consecutive_errors' = ErrorsAfterReinit(consecutive_errors)
                  /\ cycle' = [cycle EXCEPT !.reconnected = TRUE]
                  /\ pc' = "wait"
             ELSE /\ UNCHANGED <<consecutive_errors, cycle>>
                  /\ pc' = AfterReinitError
          /\ unsurfaced' = IF outcome = "ok" THEN unsurfaced
                           ELSE unsurfaced \cup {"recovery"}
    /\ UNCHANGED <<config, fetched, initial_passes, successes, dispatched, wait_time, signalled, pending_fetches, locals, snapshots, running, attempt, sleep_i,
                   alerts, alert_count, exit_code, streak>>

SleepContinues_ignores_running(i, run) == i < ScanInterval

\* run(), lines 227-229: the interval sleep goes on while seconds remain and
\* running is set
SleepContinues(i, run) == i < ScanInterval /\ run

\* run(), lines 227-230: the loop test passes and asyncio.sleep(1) is awaited
WaitTick ==
    /\ pc = "wait"
    /\ SleepContinues(sleep_i, running)
    /\ pc' = "sleep"
    /\ unsurfaced' = {}
    /\ UNCHANGED <<config, fetched, initial_passes, successes, dispatched, wait_time, signalled, pending_fetches, locals, snapshots, exchange, running,
                   attempt, sleep_i, consecutive_errors, alerts, alert_count,
                   exit_code, cycle, streak>>

\* run(), lines 227 and 230: asyncio.sleep(1) returns, next iteration
SleepDone ==
    /\ pc = "sleep"
    /\ sleep_i' = sleep_i + 1
    /\ pc' = "wait"
    /\ UNCHANGED <<config, fetched, initial_passes, successes, unsurfaced, dispatched, wait_time, signalled, pending_fetches, locals, snapshots, exchange, running,
                   attempt, consecutive_errors, alerts, alert_count,
                   exit_code, cycle, streak>>

\* run(), lines 227-229: the sleep loop ends or breaks
WaitEnd ==
    /\ pc = "wait"
    /\ ~SleepContinues(sleep_i, running)
    /\ pc' = "loop"
    /\ unsurfaced' = {}
    /\ UNCHANGED <<config, fetched, initial_passes, successes, dispatched, wait_time, signalled, pending_fetches, locals, snapshots, exchange, running, attempt,
                   consecutive_errors, sleep_i, alerts, alert_count,
                   exit_code, cycle, streak>>

\* run(), line 239 and shutdown(); an error raised by close() leaves run()
\* and main() exits with status 1
Shutdown ==
    /\ pc = "shutdown"
    /\ running' = FALSE
    /\ \E outcome \in CallOutcomes :
          /\ outcome # "ok" => exchange[outcome] # "none"
          /\ exchange' = service_close(exchange, outcome)
          /\ IF outcome = "ok"
             THEN pc' = "stopped" /\ exit_code' = 0
             ELSE Exit1
    /\ UNCHANGED <<config, fetched, initial_passes, successes, unsurfaced, dispatched, wait_time, signalled, pending_fetches, locals, snapshots, attempt, consecutive_errors,
                   sleep_i, alerts, alert_count, cycle, streak>>

\* The positions of the coroutine inside initialize()
Initializing ==
    {"validate_config", "test_connection", "init_exchanges",
     "initial_snapshots", "introduction", "run"}

\* handle_signal(): SIGINT / SIGTERM.  A signal that arrives during
\* initialize() finds running already False and changes no program variable;
\* it is recorded in the environments that send one.
Signal ==
    /\ pc \notin {"stopped", "exited"}
    /\ pc \in Initializing => early_signal
    /\ running' = FALSE
    /\ signalled' = TRUE
    /\ UNCHANGED <<config, fetched, initial_passes, successes, unsurfaced, dispatched, wait_time, pending_fetches, locals, snapshots, exchange, pc, attempt,
                   consecutive_errors, sleep_i, alerts, alert_count,
                   exit_code, cycle, streak>>

Next ==
    \/ ValidateConfig
    \/ TestConnection
    \/ InitializeExchanges
    \/ InitialSnapshots
    \/ InitialSnapshotsBatchTimeout
    \/ InitialSnapshotsFail
    \/ Introduction
    \/ RunStart
    \/ Loop
    \/ GetChanges
    \/ GetChangesBatchTimeout
    \/ Analyze
    \/ SendAlert
    \/ SendAlertsDone
    \/ PipelineRaises
    \/ ScanErrorNotify
    \/ ScanTimeout
    \/ ScanReturned
    \/ PrintStatistics
    \/ StatisticsRaises
    \/ HandleFailure
    \/ ReinitClose
    \/ ReinitInitialize
    \/ WaitTick
    \/ SleepDone
    \/ WaitEnd
    \/ Shutdown
    \/ Signal

Spec == Init /\ [][Next]_vars

\* The scheduler keeps running: every step but the arrival of a signal is
\* taken eventually (collaborator calls return, the event loop resumes the
\* coroutine).
Program ==
    \/ ValidateConfig \/ TestConnection \/ InitializeExchanges
    \/ InitialSnapshots \/ InitialSnapshotsBatchTimeout
    \/ InitialSnapshotsFail \/ Introduction \/ RunStart \/ Loop
    \/ GetChanges \/ GetChangesBatchTimeout \/ Analyze \/ SendAlert
    \/ SendAlertsDone \/ PipelineRaises \/ ScanErrorNotify \/ ScanTimeout
    \/ ScanReturned \/ PrintStatistics \/ StatisticsRaises \/ HandleFailure
    \/ ReinitClose \/ ReinitInitialize \/ WaitTick \/ SleepDone
    \/ WaitEnd \/ Shutdown

FairSpec == FairInit /\ [][Next]_vars /\ WF_vars(Program)

\* The bot with the symbol lists of KeyEnvironments
KeySpec == KeyInit /\ [][Next]_vars

\* The bot in the fair environments, with the age of the stored snapshots
\* recorded
StaleSpec == StaleInit /\ [][Next]_vars

\* MarketBias.calculate applied to one pair of percentages
BiasSpec == BiasInit /\ [][Classify]_vars

\* is_significant_move applied to one pair of percentages and thresholds
SignificantSpec == SignificantInit /\ [][SignificantMove]_vars

\* compare_snapshots applied to one pair of snapshots
CompareSpec == CompareInit /\ [][CompareSnapshots]_vars

\* calculate_percentage_change applied to one pair of values
PercentageSpec == PercentageInit /\ [][PercentageChange]_vars

-----------------------------------------------------------------------------
(* Properties *)

Range(seq) == { seq[i] : i \in 1..Len(seq) }

Count(seq, x) == Cardinality({ i \in 1..Len(seq) : seq[i] = x })

\* The step in which scan_markets turns the changes into alerts.
AnalyzeStep == pc = "analyze" /\ pc' \in {"send_alerts", "scan_returned"}

PriceMet(c) ==
    Abs(c.price_change_pct.num) >= PRICE_THRESHOLD * Abs(c.price_change_pct.den)

OIMet(c) ==
    Abs(c.oi_change_pct.num) >= OI_THRESHOLD * Abs(c.oi_change_pct.den)

\* The change is the comparison that ended at snapshot s.
ChangeOf(c, s) ==
    /\ c.symbol = s.symbol
    /\ c.exchange = s.exchange
    /\ c.current_price = s.price
    /\ c.current_oi = s.open_interest

C2_AlertOnlyWhenBothMet ==
    [][AnalyzeStep =>
         \A i \in 1..Len(changes) :
            (\E j \in 1..Len(alerts') : alerts'[j].price_change = changes[i])
            <=> (PriceMet(changes[i]) /\ OIMet(changes[i]))]_vars

\* C3: when the fetch succeeds for K of the M tuples, the K store entries are
\* replaced by the fetched snapshots, the entries of the other keys are left
\* as they were, and comparisons are produced for exactly the fetched keys
\* that had a previous snapshot.
C3_PartialFailure ==
    pc = "analyze" =>
       LET ok == { i \in 1..Len(results) : results[i] # NoneObj }
           K == { SnapshotKey(results[i]) : i \in ok }
           compared == { i \in ok :
                           SnapshotKey(results[i]) \in DOMAIN snapshots_before }
       IN  /\ DOMAIN snapshots = DOMAIN snapshots_before \cup K
           /\ \A i \in ok : snapshots[SnapshotKey(results[i])] = results[i]
           /\ \A k \in DOMAIN snapshots_before \ K :
                 snapshots[k] = snapshots_before[k]
           /\ Len(changes) = Cardinality(compared)
           /\ \A i \in ok :
                 (i \in compared)
                 <=> \E j \in 1..Len(changes) : ChangeOf(changes[j], results[i])

\* Some fetches of the batch failed and some succeeded; a failed key and a
\* fetched key were both in the store already.
C3_Witness ==
    /\ pc = "analyze"
    /\ \E i, j \in 1..Len(results) :
          /\ results[i] = NoneObj
          /\ LET t == FetchTasks(symbols)[i]
             IN  _get_snapshot_key(t.exchange, t.symbol, t.market_type)
                    \in DOMAIN snapshots_before
          /\ results[j] # NoneObj
          /\ SnapshotKey(results[j]) \in DOMAIN snapshots_before
          /\ changes # << >>

FirstSeen(s) == SnapshotKey(s) \notin DOMAIN snapshots_before

C6_Recovery ==
    pc \in {"wait", "loop"} =>
       IF cycle.breach
       THEN /\ cycle.reconnects = 1
            /\ cycle.reconnected =>
                  /\ consecutive_errors = 0
                  /\ exchange = [binance |-> "open", bybit |-> "open"]
       ELSE cycle.reconnects = 0 /\ ~cycle.reconnected

\* The loop is about to scan again after a successful reconnection.
C6_Witness ==
    /\ pc = "loop"
    /\ running
    /\ cycle.breach
    /\ cycle.reconnected
    /\ consecutive_errors = 0

\* C7 as claimed: every cycle that ended in a timeout or a raised error has
\* increased the counter by exactly one.
C7_EveryFailureCounted ==
    (pc \in {"print_statistics", "handle_failure"} /\ Failed(cycle))
       => consecutive_errors = cycle.errors_before + 1

\* C8: a scan that returns resets the counter to zero, and a reconnection
\* starts only after 5 failed cycles with no successful scan in between.
C8_SuccessResets ==
    /\ [][(pc = "scan_returned" /\ pc' = "print_statistics")
             => consecutive_errors' = 0]_vars
    /\ [](pc \in {"reinit_close", "reinit_initialize"}
             => streak >= max_consecutive_errors)

\* A scan returned successfully after earlier failures.
C8_Witness ==
    /\ pc = "print_statistics"
    /\ cycle.errors_before > 0
    /\ ~Failed(cycle)
    /\ consecutive_errors = 0

\* C9: after a cycle that ended in a timeout or a raised error a warning is
\* attempted and the interval wait is reached, and from the interval wait
\* another scan starts unless shutdown was requested.
C9_ContinuesAfterFailure ==
    /\ (pc \in {"handle_failure", "scan_error"})
          ~> (pc = "wait" /\ cycle.warned)
    /\ (pc = "wait") ~> (pc = "scan" \/ ~running)

\* A scan has started right after a failed cycle.
C9_Witness ==
    /\ pc = "scan"
    /\ cycle.errors_before > 0

\* C10: an error in the reconnection never ends the process: from the
\* reconnection the scheduler goes to the interval wait, and the next failed
\* cycle, the counter being above the budget, starts a reconnection again.
C10_RecoveryFailureTolerated ==
    /\ [][(pc \in {"reinit_close", "reinit_initialize"})
             => (pc' \in {"reinit_close", "reinit_initialize", "wait"}
                 /\ exit_code' = NotExited)]_vars
    /\ (pc \in {"reinit_close", "reinit_initialize"}) ~> (pc = "wait")
    /\ [][(pc = "handle_failure" /\ pc' # pc
             /\ consecutive_errors > max_consecutive_errors)
             => pc' = "reinit_close"]_vars

\* A reconnection starts with the counter above the budget, that is after a
\* reconnection that failed.
C10_Witness ==
    /\ pc = "reinit_close"
    /\ consecutive_errors > max_consecutive_errors

\* C11 as claimed: once a shutdown signal has been received, in whatever
\* state, the process comes to its end (Stopped, or the fatal exit), and
\* Stopped is reached with both exchange sessions closed and exit status 0.
C11_ShutdownFromAnyState ==
    /\ signalled ~> (pc \in {"stopped", "exited"})
    /\ [](pc = "stopped" =>
            /\ exchange = [binance |-> "closed", bybit |-> "closed"]
            /\ exit_code = 0)

\* The positions of the coroutine inside one scan cycle
Scanning == {"scan", "analyze", "send_alerts", "scan_error"}

\* C12: with running cleared no scan cycle is started; the signal leaves the
\* scan in flight where it is, and the scan is left only by its return or its
\* timeout; the interval wait starts no further sleep, and a sleep in progress
\* is followed by the end of the wait.
C12_NoNewScanAfterSignal ==
    /\ [][(~running /\ pc # "scan") => pc' # "scan"]_vars
    /\ [][(running /\ ~running')
             => (pc' = pc /\ alerts' = alerts /\ snapshots' = snapshots
                 /\ changes' = changes
                 /\ current_snapshots' = current_snapshots)]_vars
    /\ [][(~running /\ pc \in Scanning)
             => pc' \in Scanning \cup {"scan_returned", "handle_failure"}]_vars
    /\ [][(~running /\ pc = "wait") => pc' \in {"wait", "loop"}]_vars
    /\ [][(~running /\ pc = "sleep" /\ pc' # pc)
             => (pc' = "wait" /\ ~SleepContinues(sleep_i', running'))]_vars

\* The signal arrived while alerts of the scan in flight were being sent.
C12_Witness ==
    /\ pc = "send_alerts"
    /\ alerts # << >>
    /\ signalled
    /\ ~running

\* C13: fetch tasks are pending only while the batch that created them is
\* awaited, never those of two batches at once, and when the interval wait or
\* the loop test is reached the cycle has ended: nothing of it is pending,
\* returned or awaiting dispatch, also after the per-scan timeout.
C13_NoOverlap ==
    /\ pending_fetches \in {0, Len(FetchTasks(symbols))}
    /\ pending_fetches # 0 => pc \in {"scan", "initial_snapshots"}
    /\ pc = "scan" => pending_fetches = Len(FetchTasks(symbols))
    /\ pc \in {"handle_failure", "reinit_close", "reinit_initialize",
               "wait", "sleep", "loop", "shutdown", "stopped"}
          => /\ pending_fetches = 0
             /\ alerts = << >>
             /\ current_snapshots = << >>
             /\ changes = << >>

\* The interval wait is reached after a cycle that the per-scan timeout
\* cancelled while its fetches were pending.
C13_Witness ==
    /\ pc = "wait"
    /\ cycle.cancelled > 0
    /\ pending_fetches = 0

\* C14: a batch that hits the batch timeout returns the empty list whatever
\* had completed, so the scan stores nothing, compares nothing and emits no
\* alert.
C14_BatchTimeoutDiscardsAll ==
    /\ []((pc = "analyze" /\ cycle.batch_timed_out) =>
            /\ current_snapshots = << >>
            /\ changes = << >>
            /\ writes = << >>
            /\ snapshots = snapshots_before)
    /\ [][(AnalyzeStep /\ cycle.batch_timed_out)
             => (alerts' = << >> /\ pc' = "scan_returned"
                 /\ snapshots' = snapshots)]_vars

\* The batch timed out after a fetch had completed with a price different
\* from the stored one.
C14_Witness ==
    /\ pc = "analyze"
    /\ cycle.batch_timed_out
    /\ \E i \in 1..Len(completed) :
          /\ completed[i] # NoneObj
          /\ SnapshotKey(completed[i]) \in DOMAIN snapshots
          /\ snapshots[SnapshotKey(completed[i])].price # completed[i].price

\* The results of a batch that completed with every fetch failed
ZeroSuccess == [i \in 1..Len(FetchTasks(symbols)) |-> NoneObj]

C16_BoundedInitRetries ==
    /\ [](pc = "init_exchanges" => attempt \in 1..max_retries)
    /\ [][(pc = "init_exchanges" /\ pc' = pc /\ attempt' # attempt)
             => (attempt' = attempt + 1 /\ wait_time' = 10 * attempt
                 /\ wait_time' > wait_time)]_vars
    /\ [][(pc = "init_exchanges" /\ pc' = "initial_snapshots")
             => exchange' = [binance |-> "open", bybit |-> "open"]]_vars
    /\ [][(pc = "init_exchanges" /\ pc' # pc)
             => \/ pc' = "initial_snapshots"
                \/ (attempt = max_retries /\ pc' = "exited"
                    /\ exit_code' = 1 /\ ~running')]_vars
    /\ [][(pc = "exited") => (pc' = "exited" /\ ~running')]_vars

\* The process exited after the 5th failed attempt, the 4th having been
\* followed by a wait of 40 s.
C16_Witness ==
    /\ pc = "exited"
    /\ exit_code = 1
    /\ attempt = max_retries
    /\ exchange.bybit # "open"
    /\ wait_time = 40

\* C17: while the configuration and the notifier are being checked no
\* exchange session is open, no snapshot is stored and no fetch is started;
\* each check either passes on or ends the process, and the process ended
\* there has exit status 1 and has opened, stored and scanned nothing.
C17_FatalStartupChecks ==
    /\ [](pc \in {"validate_config", "test_connection"} =>
            /\ exchange = [binance |-> "none", bybit |-> "none"]
            /\ snapshots = << >>
            /\ pending_fetches = 0
            /\ ~running)
    /\ [][(pc = "validate_config" /\ pc' # pc)
             => pc' \in {"test_connection", "exited"}]_vars
    /\ [][(pc = "test_connection" /\ pc' # pc)
             => pc' \in {"init_exchanges", "exited"}]_vars
    /\ [][(pc \in {"validate_config", "test_connection"} /\ pc' = "exited")
             => (/\ exit_code' = 1
                 /\ exchange' = [binance |-> "none", bybit |-> "none"]
                 /\ snapshots' = << >>
                 /\ pending_fetches' = 0
                 /\ alert_count' = 0
                 /\ ~running')]_vars

\* The process exited before the exchange initialization was first tried.
C17_Witness ==
    /\ pc = "exited"
    /\ attempt = 0
    /\ exit_code = 1
    /\ exchange = [binance |-> "none", bybit |-> "none"]

\* The alerts of the send attempts att, in the order of the attempts
Attempted(att) == [i \in 1..Len(att) |-> att[i].alert]

\* C18: a send attempt is made for the first alert still awaiting dispatch
\* and removes exactly that alert from the list whether it succeeded or
\* failed, so that the attempts made so far followed by the alerts still
\* waiting are always the scan's alert list: each alert is attempted once, in
\* list order, and a failed one is never put back; send_alerts() returns only
\* when no alert is left.
C18_SequentialIsolatedDispatch ==
    /\ [](pc # "send_alerts" => dispatched = << >>)
    /\ [][(pc = "analyze" /\ pc' = "send_alerts")
             => (dispatched' = << >> /\ alerts' # << >>)]_vars
    /\ [][(pc = "send_alerts" /\ dispatched' # dispatched
                              /\ pc' = "send_alerts")
             => (/\ Len(dispatched') = Len(dispatched) + 1
                 /\ SubSeq(dispatched', 1, Len(dispatched)) = dispatched
                 /\ dispatched'[Len(dispatched')].alert = Head(alerts)
                 /\ Attempted(dispatched') \o alerts'
                       = Attempted(dispatched) \o alerts
                 /\ alert_count' = alert_count
                       + (IF dispatched'[Len(dispatched')].success
                          THEN 1 ELSE 0))]_vars
    /\ [][(pc = "send_alerts" /\ pc' = "send_alerts")
             => (alerts' = alerts \/ dispatched' # dispatched)]_vars
    /\ [][(pc = "send_alerts" /\ pc' = "scan_returned")
             => (alerts = << >> /\ dispatched # << >>)]_vars

\* A send failed and the next alert of the list was attempted after it.
C18_Witness ==
    /\ pc = "send_alerts"
    /\ Len(dispatched) >= 2
    /\ ~dispatched[1].success
    /\ dispatched[2].alert # dispatched[1].alert

\* The step with which a scan cycle reaches the interval wait
CycleEnds == pc \notin {"wait", "sleep"} /\ pc' = "wait"

\* The failures that end the scan or the cycle in one of the handlers
HandledKinds == {"scan_timeout", "scan_error", "cycle_error"}

\* The failures that are absorbed where they occur
AbsorbedKinds == {"fetch", "batch_timeout", "dispatch", "recovery"}

\* C19 as stated: when a cycle reaches the interval wait, every failure that
\* occurred in it has had a warning notification attempted for it.
C19_EveryFailureWarned ==
    [][CycleEnds => unsurfaced' = {}]_vars

\* C19 amended: a warning notification is attempted for the failures caught
\* by the handlers of scan_markets() and run() (scan timeout, scan error,
\* error in the cycle), and in a cycle only then; a failed fetch, a batch
\* timeout, a failed alert dispatch and a failed recovery reach the interval
\* wait without a warning of their own.
C19_OnlyHandledFailuresWarned ==
    /\ [](unsurfaced \subseteq HandledKinds \cup AbsorbedKinds)
    /\ [][CycleEnds => (unsurfaced' \cap HandledKinds = {})]_vars
    /\ [][CycleEnds => (cycle'.warned <=> (Failed(cycle') \/ cycle'.raised))]_vars
    /\ [][(pc # "wait") =>
             (unsurfaced \cap AbsorbedKinds \subseteq unsurfaced')]_vars
    /\ [][(~cycle.warned /\ cycle'.warned) =>
             (/\ pc \in {"scan_error", "handle_failure"}
              /\ unsurfaced \cap HandledKinds # {}
              /\ unsurfaced' \cap HandledKinds = {})]_vars

\* A cycle in which an alert failed to be sent has reached the interval wait
\* with no warning attempted at all.
C19_Witness ==
    /\ pc = "wait"
    /\ "dispatch" \in unsurfaced
    /\ ~cycle.warned
    /\ ~Failed(cycle)

\* C20: the bias returned for the percentages p and o is long_inflow exactly
\* when p > 0 and o > 0, short_inflow exactly when p <= 0 and o > 0,
\* short_squeeze exactly when p > 0 and o <= 0 and long_liquidation exactly
\* when p <= 0 and o <= 0; a percentage of 0 counts as down.
C20_BiasBySigns ==
    probe.applied =>
       LET p == probe.price_change_pct.num
           o == probe.oi_change_pct.num
           b == probe.bias_type
       IN  /\ probe.price_change_pct.den = 1 /\ probe.oi_change_pct.den = 1
           /\ b \in {"long_inflow", "short_inflow", "short_squeeze",
                     "long_liquidation"}
           /\ (b = "long_inflow") <=> (p > 0 /\ o > 0)
           /\ (b = "short_inflow") <=> (p <= 0 /\ o > 0)
           /\ (b = "short_squeeze") <=> (p > 0 /\ o <= 0)
           /\ (b = "long_liquidation") <=> (p <= 0 /\ o <= 0)

\* A price change of exactly 0 with rising open interest was classified.
C20_Witness ==
    /\ probe.applied
    /\ probe.price_change_pct.num = 0
    /\ probe.oi_change_pct.num > 0
    /\ probe.bias_type = "short_inflow"

\* The percentage pct is the integer n
PctIs(pct, n) == pct.den # 0 /\ pct.num = n * pct.den

\* C21: the percentage change from old to new is 0 whenever old is 0, and
\* otherwise it is (new - old) / old * 100, which gives 3 for (100, 103),
\* -5 for (100, 95), 100 for (100, 200) and 0 for (100, 100).
C21_PercentageChange ==
    probe.applied =>
       LET old == probe.old_value
           new == probe.new_value
           r == probe.result
       IN  /\ r.den # 0
           /\ old = 0 => PctIs(r, 0)
           /\ old # 0 => r.num * old = (new - old) * 100 * r.den
           /\ (old = 100 /\ new = 103) => PctIs(r, 3)
           /\ (old = 100 /\ new = 95) => PctIs(r, 0 - 5)
           /\ (old = 100 /\ new = 200) => PctIs(r, 100)
           /\ (old = 100 /\ new = 100) => PctIs(r, 0)

\* The change from 0 to a value other than 0 was computed.
C21_Witness ==
    /\ probe.applied
    /\ probe.old_value = 0
    /\ probe.new_value # 0
    /\ PctIs(probe.result, 0)

\* The components of the key of the snapshot s
KeyOf(s) == <<s.exchange, s.symbol, s.market_type>>

\* C22: comparing two snapshots gives no change exactly when their keys
\* differ in the exchange, the symbol or the variant (market_type), and a
\* change when the keys are identical.
C22_CompareByKey ==
    probe.applied =>
       ((probe.result = NoneObj) <=> (KeyOf(probe.previous) # KeyOf(probe.current)))

\* C23: the statistics report as total_alerts the number of send_alert()
\* calls that returned success since the process started, and as
\* tracked_snapshots the number of distinct keys of the snapshots in the
\* store; total_alerts never decreases and changes only by one, in the step
\* of a successful alert dispatch (not with a failed send, a warning or the
\* introduction message).
C23_Statistics ==
    /\ [](get_statistics(alert_count, snapshots).total_alerts = successes)
    /\ [](get_statistics(alert_count, snapshots).tracked_snapshots
             = Cardinality({ SnapshotKey(snapshots[k]) : k \in DOMAIN snapshots }))
    /\ [][alert_count' >= alert_count]_vars
    /\ [][(alert_count' # alert_count)
             => (/\ pc = "send_alerts"
                 /\ alert_count' = alert_count + 1
                 /\ Len(dispatched') = Len(dispatched) + 1
                 /\ dispatched'[Len(dispatched')].success)]_vars
    /\ [][(pc \in {"introduction", "scan_error", "handle_failure"})
             => (alert_count' = alert_count)]_vars

\* In one scan an alert was sent and another one failed, and one alert is
\* counted, with two keys in the store.
C23_Witness ==
    /\ pc = "send_alerts"
    /\ Len(dispatched) >= 2
    /\ \E i \in 1..Len(dispatched) : ~dispatched[i].success
    /\ \E i \in 1..Len(dispatched) : dispatched[i].success
    /\ get_statistics(alert_count, snapshots).total_alerts = 1
    /\ get_statistics(alert_count, snapshots).tracked_snapshots >= 2

\* C24: is_significant_move(p, o, pT, oT) is true exactly when |p| >= pT and
\* |o| >= oT, values at the thresholds included and signs ignored; whether
\* analyze_changes() emits an alert for a change with the same percentages
\* does not follow it: an alert is emitted exactly when |p| or |o| reaches its
\* configured threshold.
C24_SignificantMoveAuxiliary ==
    probe.applied =>
       LET p == probe.price_change_pct.num
           o == probe.oi_change_pct.num
       IN  /\ probe.price_change_pct.den = 1 /\ probe.oi_change_pct.den = 1
           /\ probe.result <=> (/\ Abs(p) >= probe.price_threshold
                                /\ Abs(o) >= probe.oi_threshold)
           /\ (probe.alerts # << >>) <=> (\/ Abs(p) >= PRICE_THRESHOLD
                                          \/ Abs(o) >= OI_THRESHOLD)

\* A falling price exactly at the price threshold with open interest below
\* its threshold: not a significant move, yet an alert is emitted.
C24_Witness ==
    /\ probe.applied
    /\ probe.price_change_pct.num = 0 - PRICE_THRESHOLD
    /\ probe.price_threshold = PRICE_THRESHOLD
    /\ probe.oi_change_pct.num = 1
    /\ probe.oi_threshold = 2
    /\ ~probe.result
    /\ probe.alerts # << >>

\* The alerts of a scan that finds previous in the store and fetches current
PipelineAlerts(previous, current) ==
    analyze_changes(get_changes(_store_snapshot(<< >>, previous),
                                << current >>).changes)

\* The alerts are one alert with the percentages price_pct / 10 and
\* oi_pct / 10 and the bias bias_type
OneAlertWith(als, price_pct, oi_pct, bias_type) ==
    /\ Len(als) = 1
    /\ als[1].price_change.price_change_pct.num * 10
          = price_pct * als[1].price_change.price_change_pct.den
    /\ als[1].price_change.oi_change_pct.num * 10
          = oi_pct * als[1].price_change.oi_change_pct.den
    /\ als[1].market_bias = bias_type

Running ==
    {"loop", "scan", "analyze", "send_alerts", "scan_error", "scan_returned",
     "print_statistics", "handle_failure", "wait", "sleep"}

\* The positions of the coroutine inside the reconnection of run()
Recovering == {"reinit_close", "reinit_initialize"}

\* The state of the scheduler at the position p
SchedulerState(p) ==
    IF p \in Initializing THEN "Initializing"
    ELSE IF p \in Running THEN "Running"
    ELSE IF p \in Recovering THEN "Recovering"
    ELSE IF p = "shutdown" THEN "ShuttingDown"
    ELSE IF p = "stopped" THEN "Stopped"
    ELSE "Exited"

\* The transitions of the scheduler other than the fatal exit
SchedulerTransitions ==
    { <<"Initializing", "Running">>, <<"Running", "Recovering">>,
      <<"Recovering", "Running">>, <<"Initializing", "ShuttingDown">>,
      <<"Running", "ShuttingDown">>, <<"Recovering", "ShuttingDown">>,
      <<"ShuttingDown", "Stopped">> }

\* No scan is in progress: nothing fetched, compared, analysed or dispatched
NoScan ==
    /\ pending_fetches = 0
    /\ alerts = << >>
    /\ changes = << >>
    /\ current_snapshots = << >>
    /\ dispatched = << >>

\* What C26 says of the scheduler apart from the transitions it lists
SchedulerDiscipline ==
    /\ [][(pc' \in Recovering /\ pc \notin Recovering)
             => (pc = "handle_failure" /\ Failed(cycle)
                 /\ consecutive_errors >= max_consecutive_errors)]_vars
    /\ [](pc \in Recovering \cup {"shutdown", "stopped"} => NoScan)
    /\ [](pc \in Initializing =>
             (alerts = << >> /\ changes = << >> /\ dispatched = << >>
              /\ ~running))
    /\ [][(pc = "stopped") => (pc' = "stopped")]_vars

\* C26: the scheduler changes state only along Initializing -> Running,
\* Running -> Recovering, Recovering -> Running, any state -> ShuttingDown
\* and ShuttingDown -> Stopped, or by the fatal exit out of Initializing;
\* Recovering is entered only from Running after a failed scan, no scan is in
\* progress in Initializing, Recovering, ShuttingDown or Stopped, and Stopped
\* is never left.
C26_SchedulerTransitions ==
    /\ [][(SchedulerState(pc') # SchedulerState(pc))
             => (\/ <<SchedulerState(pc), SchedulerState(pc')>>
                        \in SchedulerTransitions
                 \/ (pc \in Initializing /\ pc' = "exited"))]_vars
    /\ SchedulerDiscipline

\* The same with the exit out of ShuttingDown added to the transitions: all
\* that the scheduler does
SchedulerWithShutdownExit ==
    /\ [][(SchedulerState(pc') # SchedulerState(pc))
             => (\/ <<SchedulerState(pc), SchedulerState(pc')>>
                        \in SchedulerTransitions
                 \/ (pc \in Initializing \cup {"shutdown"} /\ pc' = "exited"))]_vars
    /\ SchedulerDiscipline

\* C27: the cold-start pass has not completed while the configuration, the
\* notifier and the exchanges are being set up and while it is being tried;
\* from then on, and so in every regular scan cycle, it has completed exactly
\* once.  It completes with both exchange sessions open and before any scan
\* cycle, it stores what it fetched and it produces no change and no alert.
C27_ColdStartOnce ==
    /\ [](pc \in {"validate_config", "test_connection", "init_exchanges",
                  "initial_snapshots"}
             => (initial_passes = 0 /\ snapshots = << >>))
    /\ [](pc \in {"introduction", "run", "shutdown", "stopped"}
                 \cup Running \cup Recovering
             => initial_passes = 1)
    /\ [](initial_passes \in {0, 1})
    /\ [][(pc' = "initial_snapshots" /\ pc # "initial_snapshots")
             => (pc = "init_exchanges"
                 /\ exchange' = [binance |-> "open", bybit |-> "open"])]_vars
    /\ [][(initial_passes' # initial_passes)
             => (/\ pc = "initial_snapshots"
                 /\ pc' = "introduction"
                 /\ exchange = [binance |-> "open", bybit |-> "open"]
                 /\ cycle.errors_before = 0 /\ ~cycle.warned
                 /\ DOMAIN snapshots' = Range(writes')
                 /\ changes' = << >>
                 /\ alerts' = << >>
                 /\ dispatched' = << >>
                 /\ alert_count' = 0)]_vars

\* The first regular scan is in progress after a cold-start pass that stored
\* two keys.
C27_Witness ==
    /\ pc = "scan"
    /\ initial_passes = 1
    /\ alert_count = 0
    /\ Cardinality(DOMAIN snapshots) = 2
    /\ snapshots_before = << >>

\* No element occurs twice in seq
NoRepeats(seq) == \A i, j \in 1..Len(seq) : seq[i] = seq[j] => i = j

\* The keys of the snapshots a batch returned, in order
BatchKeys == [i \in 1..Len(current_snapshots) |-> SnapshotKey(current_snapshots[i])]

\* The batch of the cold-start pass or of the scan has just been processed,
\* with each returned key written once and compared at most once
KeysOnce ==
    pc \in {"introduction", "analyze"} =>
       /\ NoRepeats(BatchKeys)
       /\ NoRepeats(writes)
       /\ writes = BatchKeys
       /\ Len(changes) <= Cardinality(Range(writes))

\* C28 as stated: for every configured symbol list, the snapshots a batch
\* returns have pairwise different store keys, and each key is written once
\* and compared at most once in the pass.
C28_UniqueKeysInBatch == KeysOnce

\* C28 amended: the same for every configured symbol list without a
\* repeated entry; the batch holds one request per entry of the list (two
\* for bybit when the entry ends in /USDT).
C28_UniqueKeysWithoutRepeats ==
    /\ NoRepeats(symbols) => KeysOnce
    /\ Len(FetchTasks(symbols))
          = 2 * Len(symbols)
            + Cardinality({ i \in 1..Len(symbols) : symbols[i][2] = "USDT" })
    /\ pc = "analyze" => Len(current_snapshots) <= Len(FetchTasks(symbols))

\* All five snapshots of the list BTC/USDT, BTC/USD were returned, among them
\* the linear and the inverse BTC/USD of bybit.
C28_Witness ==
    /\ pc = "analyze"
    /\ NoRepeats(symbols)
    /\ Len(current_snapshots) = 5
    /\ \E i, j \in 1..5 :
          /\ current_snapshots[i].exchange = current_snapshots[j].exchange
          /\ current_snapshots[i].symbol = current_snapshots[j].symbol
          /\ current_snapshots[i].market_type = "linear"
          /\ current_snapshots[j].market_type = "inverse"

\* C29: the store changes only in the step in which the cold-start pass
\* returns and in the step in which a scan's compare-and-replace loop runs;
\* the analysis, the dispatch of alerts, the failure handlers, the
\* reconnection and the shutdown leave it as it is.  No key ever leaves the
\* store, and every key in it is a key of the configured universe.
C29_StoreOwnership ==
    /\ [][(snapshots' # snapshots)
             => (\/ (pc = "initial_snapshots" /\ pc' = "introduction")
                 \/ (pc = "scan" /\ pc' = "analyze"))]_vars
    /\ [][(pc \in {"analyze", "send_alerts", "scan_error", "handle_failure",
                   "reinit_close", "reinit_initialize", "shutdown"})
             => (snapshots' = snapshots)]_vars
    /\ [][DOMAIN snapshots \subseteq DOMAIN snapshots']_vars
    /\ [](DOMAIN snapshots \subseteq ConfiguredKeys(symbols))
    /\ [](\A k \in DOMAIN snapshots : SnapshotKey(snapshots[k]) = k)

\* A scan has added a key to a store that already held another one, and
\* replaced the value of none or more of the others.
C29_Witness ==
    /\ pc = "analyze"
    /\ DOMAIN snapshots_before # {}
    /\ DOMAIN snapshots_before # DOMAIN snapshots
    /\ DOMAIN snapshots_before \subseteq DOMAIN snapshots
    /\ DOMAIN snapshots \subseteq ConfiguredKeys(symbols)

\* C30: every alert a scan emits carries the exchange, the symbol and the
\* variant (market_type) of the fetched snapshot whose comparison with the
\* stored one produced it.
C30_AlertCarriesFullKey ==
    [][AnalyzeStep =>
         \A j \in 1..Len(alerts') :
            \E i \in 1..Len(current_snapshots) :
               LET s == current_snapshots[i]
                   k == SnapshotKey(s)
               IN  /\ k \in DOMAIN snapshots_before
                   /\ alerts'[j].price_change
                         = compare_snapshots(snapshots_before[k], s)
                   /\ alerts'[j].exchange = s.exchange
                   /\ alerts'[j].symbol = s.symbol
                   /\ alerts'[j].market_type = s.market_type]_vars

\* C31: a snapshot with a zero price (a zero open interest) gives a zero
\* percentage change of the price (of the open interest) in every comparison
\* it takes part in, as the previous or as the current snapshot, so that axis
\* does not meet its threshold.
C31_ZeroReadingGivesZeroChange ==
    (probe.applied /\ probe.result # NoneObj) =>
       /\ (probe.previous.price = 0 \/ probe.current.price = 0)
             => (PctIs(probe.result.price_change_pct, 0)
                   /\ ~PriceMet(probe.result))
       /\ (probe.previous.open_interest = 0
              \/ probe.current.open_interest = 0)
             => (PctIs(probe.result.oi_change_pct, 0) /\ ~OIMet(probe.result))

\* C31, as the code has it: a zero price (a zero open interest) of the
\* previous snapshot gives a zero change on that axis, which does not meet
\* the threshold; a zero price (a zero open interest) of the current
\* snapshot against a non-zero previous one gives a change of -100%, which
\* meets it.
C31_ZeroPreviousGivesZeroChange ==
    (probe.applied /\ probe.result # NoneObj) =>
       /\ probe.previous.price = 0
             => (PctIs(probe.result.price_change_pct, 0)
                   /\ ~PriceMet(probe.result))
       /\ probe.previous.open_interest = 0
             => (PctIs(probe.result.oi_change_pct, 0) /\ ~OIMet(probe.result))
       /\ (probe.previous.price # 0 /\ probe.current.price = 0)
             => (PctIs(probe.result.price_change_pct, 0 - 100)
                   /\ PriceMet(probe.result))
       /\ (probe.previous.open_interest # 0
              /\ probe.current.open_interest = 0)
             => (PctIs(probe.result.oi_change_pct, 0 - 100)
                   /\ OIMet(probe.result))

\* A snapshot without price and open interest was compared with the full
\* snapshot that follows it: both changes are zero and no threshold is met.
C31_Witness ==
    /\ probe.applied
    /\ probe.result # NoneObj
    /\ probe.previous.price = 0
    /\ probe.previous.open_interest = 0
    /\ probe.current.price = 1035
    /\ probe.current.open_interest = 1040
    /\ PctIs(probe.result.price_change_pct, 0)
    /\ PctIs(probe.result.oi_change_pct, 0)
    /\ ~meets_threshold(probe.result, PRICE_THRESHOLD, OI_THRESHOLD)

\* C32: no interruption of a scan leaves the store partly updated.  The store
\* changes during a scan only in the step in which the fetched batch is
\* compared and stored, and that step stores every snapshot of the batch;
\* the step of the per-scan timeout and the step of the shutdown signal leave
\* the store as it is, and a scan timed out during the fetch has stored
\* nothing.
C32_NoPartialStoreUpdate ==
    /\ [][(pc = "scan" /\ pc' = "analyze")
             => (/\ Len(writes') = Len(current_snapshots')
                 /\ \A i \in 1..Len(current_snapshots') :
                       /\ writes'[i] = SnapshotKey(current_snapshots'[i])
                       /\ writes'[i] \in DOMAIN snapshots'
                       /\ \E j \in i..Len(current_snapshots') :
                             /\ writes'[j] = writes'[i]
                             /\ snapshots'[writes'[i]] = current_snapshots'[j])]_vars
    /\ [][(pc \in {"scan", "analyze", "send_alerts", "scan_error"}
             /\ snapshots' # snapshots)
             => (pc = "scan" /\ pc' = "analyze")]_vars
    /\ [][(cycle'.timed_out /\ ~cycle.timed_out)
             => (snapshots' = snapshots)]_vars
    /\ [][(signalled' # signalled \/ (running /\ ~running'))
             => (snapshots' = snapshots)]_vars

\* A scan was timed out after its fetch stage (no fetch was left to cancel)
\* and the store holds both snapshots of its batch.
C32_Witness ==
    /\ pc = "handle_failure"
    /\ cycle.timed_out
    /\ cycle.cancelled = 0
    /\ Cardinality(DOMAIN snapshots) >= 2
    /\ \E k \in DOMAIN snapshots : snapshots[k].price # 1000

\* C33: the consecutive-error counter is between 0 and the budget
\* max_consecutive_errors, inclusive, in every reachable state.
C33_CounterWithinBudget ==
    consecutive_errors \in 0..max_consecutive_errors

\* C33, as the code has it: the counter is never negative, rises by one at a
\* time, and is not bounded by the budget.  It is above the budget only in a
\* cycle that began with the budget already reached, and a cycle begins that
\* way only when the reconnection of the cycle before it was attempted and
\* failed; a successful scan or reconnection puts it back to zero.
C33_CounterAboveBudgetAfterFailedRecovery ==
    /\ [](consecutive_errors >= 0)
    /\ [][consecutive_errors'
             \in {0, consecutive_errors, consecutive_errors + 1}]_vars
    /\ [](consecutive_errors > max_consecutive_errors
             => cycle.errors_before >= max_consecutive_errors)
    /\ [][(pc = "loop" /\ pc' = "scan"
             /\ consecutive_errors >= max_consecutive_errors)
             => (cycle.reconnects > 0 /\ ~cycle.reconnected)]_vars
    /\ [][(pc = "reinit_initialize" /\ cycle'.reconnected)
             => (consecutive_errors' = 0)]_vars

\* The sixth failure in a row was counted: the reconnection after the fifth
\* one had failed and the following scan timed out.
C33_Witness ==
    /\ consecutive_errors = max_consecutive_errors + 1
    /\ cycle.errors_before = max_consecutive_errors
    /\ cycle.timed_out
    /\ pc = "handle_failure"

\* C34: every alert a scan generates receives a dispatch attempt before the
\* next scan cycle begins: the step in which the per-scan timeout ends a
\* scan finds no generated alert still waiting to be sent.
C34_TimeoutDiscardsNoAlert ==
    [][(cycle'.timed_out /\ ~cycle.timed_out) => (alerts = << >>)]_vars

\* C35: the previous snapshot of every comparison was captured by the fetch
\* pass immediately before it (the preceding scan, or the cold start for the
\* first scan): no scan compares a fetched snapshot with a stored one that
\* the preceding pass did not return.
C35_PreviousFromPrecedingScan ==
    [][(pc = "scan" /\ pc' = "analyze")
          => \A i \in 1..Len(writes') :
                writes'[i] \in DOMAIN snapshots => writes'[i] \notin stale]_vars

\* C36: under every interleaving of the concurrent bybit fetches of one
\* batch, the ticker request and the open-interest request that produced a
\* snapshot were both issued while options['defaultType'] was that
\* snapshot's market_type.
C36_RequestsUnderOwnMarketType ==
    \A i \in DOMAIN probe.tasks :
       probe.tasks[i].result # None =>
          /\ probe.tasks[i].result = probe.tasks[i].market_type
          /\ probe.tasks[i].ticker_type = probe.tasks[i].market_type
          /\ probe.tasks[i].oi_type = probe.tasks[i].market_type

\* C37: initialize() goes on past the cold-start pass only when the pass has
\* stored at least one snapshot; a pass whose batch timed out or whose
\* fetches all failed is not accepted with an empty store.
C37_ColdStartStoresSnapshot ==
    /\ [][(pc = "initial_snapshots" /\ pc' = "introduction")
             => (DOMAIN snapshots' # {})]_vars
    /\ [](pc \in {"introduction", "run"} => DOMAIN snapshots # {})

\* C38: whatever the close() calls of shutdown() do, ShuttingDown is left
\* with no exchange session still open (a close() that raised on one
\* exchange does not keep the other from being closed) and for Stopped, the
\* state behind the final statistics.
C38_ShutdownClosesBoth ==
    [][(pc = "shutdown" /\ pc' # "shutdown")
          => (/\ pc' = "stopped"
              /\ exchange'.binance # "open"
              /\ exchange'.bybit # "open")]_vars

\* C39: an open exchange session is never replaced by a newly opened one:
\* every call of MarketDataService.initialize(), in the startup retry loop
\* and in the recovery, starts with no session open.
C39_InitializeFindsNoOpenSession ==
    [][(pc \in {"init_exchanges", "reinit_initialize"}
          /\ (pc' # pc \/ attempt' # attempt))
          => (exchange.binance # "open" /\ exchange.bybit # "open")]_vars

\* C40: in every reachable state, for every key k of the store, the stored
\* snapshot's own key is k, and the stored snapshot is the one that the most
\* recent fetch pass which returned a snapshot for k returned (the last of
\* them, when the pass returned several); the store has exactly the keys for
\* which a fetch pass has returned a snapshot.
C40_StoreIndexConsistency ==
    /\ DOMAIN snapshots = DOMAIN latest
    /\ \A k \in DOMAIN snapshots :
          /\ SnapshotKey(snapshots[k]) = k
          /\ _get_snapshot_key(snapshots[k].exchange, snapshots[k].symbol,
                               snapshots[k].market_type) = k
          /\ snapshots[k] = latest[k]

\* A scan has replaced the snapshot of one key by a different one and has
\* left the snapshot of another key, whose fetch failed, as it was.
C40_Witness ==
    /\ pc = "analyze"
    /\ \E k \in DOMAIN snapshots_before :
          /\ k \in Range(writes)
          /\ snapshots[k] # snapshots_before[k]
          /\ snapshots[k] = latest[k]
    /\ \E k \in DOMAIN snapshots_before :
          /\ k \notin Range(writes)
          /\ snapshots[k] = snapshots_before[k]
          /\ snapshots[k] = latest[k]

====
